---- MODULE Spec2Model ----
(***************************************************************************)
(* Model of the HKEX debenture monitor (src/hkex_debenture_monitor.py) and *)
(* of the multi-ticker script (src/send_test_email.py).                     *)
(*                                                                         *)
(* A pandas DataFrame is a sequence of rows, each row a function from      *)
(* column label to cell.  A cell is [str |-> s] (a Python str, dtype       *)
(* object), [num |-> n] (a number, dtype int64) or NaN.  A frame without   *)
(* rows has no columns: that is what pd.DataFrame([]) and read_json("[]")  *)
(* build.  A Python str that is split on "_" is kept as the text it is and *)
(* split by Split.  A file name is the sequence of its "_"-separated       *)
(* parts.                                                                  *)
(***************************************************************************)
EXTENDS Integers, Sequences, FiniteSets, TLC

VARIABLES
  day,            \* the calendar date datetime.now() falls in
  files,          \* DATA_DIR: file name -> JSON content
  pc,             \* position of the monitor process
  runs,           \* monitor processes started so far
  today_main,     \* __main__'s locals
  today_details,
  prev_main,
  prev_details,
  changes,
  email,          \* what send_email built and whether the relay took it
  error,          \* the uncaught exception that ended the process, if any
  savedOn,        \* the date save_data wrote under in this run
  loadedFrom,     \* the date load_previous_data looked under in this run
  attempts,       \* SMTP deliveries attempted in this run
  persisted,      \* history: what each run's save_data wrote, and how its
                  \* notification ended
  previous_file,  \* send_test_email.py: data/previous_data.json
  previous_data,  \* send_test_email.py: __main__'s locals
  current_data,
  ticker,         \* index of the ticker the loop is at
  changes_detected,
  mpc,            \* position of the multi-ticker process
  merror          \* the uncaught exception that ended it, if any

vars == <<day, files, pc, runs, today_main, today_details, prev_main,
          prev_details, changes, email, error, savedOn, loadedFrom, attempts,
          persisted, previous_file, previous_data, current_data, ticker,
          changes_detected, mpc, merror>>

monitorVars == <<day, files, pc, runs, today_main, today_details, prev_main,
                 prev_details, changes, email, error, savedOn, loadedFrom,
                 attempts, persisted>>

multiVars == <<previous_file, previous_data, current_data, ticker,
               changes_detected, mpc, merror>>

-----------------------------------------------------------------------------
(* Bounds of the model *)

MaxRows == 1

MaxDetailRows == 1

MaxDay == 3

MaxRuns == 2

-----------------------------------------------------------------------------
(* Values *)

Str(s) == [str |-> s]

Num(n) == [num |-> n]

NaN == [nan |-> TRUE]

NoneValue == [none |-> TRUE]

Some(v) == [some |-> v]

Range(s) == {s[i] : i \in 1..Len(s)}

SeqsUpTo(S, n) == UNION {[1..k -> S] : k \in 0..n}

RECURSIVE Flatten(_)
Flatten(ss) == IF Len(ss) = 0 THEN <<>> ELSE Head(ss) \o Flatten(Tail(ss))

RECURSIVE Orderings(_)
Orderings(S) ==
  IF S = {} THEN {<<>>}
  ELSE UNION {{<<x>> \o o : o \in Orderings(S \ {x})} : x \in S}

(* The texts the website's cells take in the model, and the numbers whose  *)
(* decimal notation is among them.                                         *)
Names == {"A", "A_B"}

InterestTexts == {"Yes", "No"}

CellTexts == {"100", "x"}

NumberValues == {100}

Lower(s) == IF s = "Yes" THEN "yes" ELSE IF s = "No" THEN "no" ELSE s

Split(s) == IF s = "A_B" THEN <<"A", "B">> ELSE <<s>>

IsNumericText(s) == \E n \in NumberValues : ToString(n) = s

ParseNumber(s) == CHOOSE n \in NumberValues : ToString(n) = s

-----------------------------------------------------------------------------
(* DataFrames *)

Columns(df) == IF Len(df) = 0 THEN {} ELSE DOMAIN df[1]

empty(df) == Len(df) = 0 \/ Columns(df) = {}

MainColumns ==
  {"Name", "Capacity", "Nature of Interest", "Number of Debentures",
   "Interest in Debentures", "Date of Notice"}

MainRow(name, interest) ==
  [c \in MainColumns |->
     CASE c = "Name" -> Str(name)
       [] c = "Capacity" -> Str("Director")
       [] c = "Nature of Interest" -> Str("Beneficial")
       [] c = "Number of Debentures" -> Str("100")
       [] c = "Interest in Debentures" -> Str(interest)
       [] c = "Date of Notice" -> Str("01/01/2025")]

MainRows == {MainRow(n, i) : n \in Names, i \in InterestTexts}

DetailRow(text) == (0 :> Str(text))

DetailFrames == SeqsUpTo({DetailRow(t) : t \in CellTexts}, MaxDetailRows)

HasDebentures(row) == Lower(row["Interest in Debentures"].str) = "yes"

-----------------------------------------------------------------------------
(* DataFrame.to_json(orient="records") and pd.read_json *)

ColumnNumbers == {0}

(* A JSON object's keys are strings: an integer column label is written in *)
(* decimal notation.                                                       *)
JsonKey(label) ==
  IF ToString(label) \in {ToString(i) : i \in ColumnNumbers}
  THEN ToString(label) ELSE label

to_json(df) ==
  [i \in 1..Len(df) |->
     [k \in {JsonKey(c) : c \in DOMAIN df[i]} |->
        df[i][CHOOSE c \in DOMAIN df[i] : JsonKey(c) = k]]]

(* read_json, convert_axes=True: a key that reads as an integer becomes    *)
(* one.                                                                    *)
AxisLabel(key) ==
  IF \E i \in ColumnNumbers : ToString(i) = key
  THEN CHOOSE i \in ColumnNumbers : ToString(i) = key ELSE key

(* read_json, dtype=True: a column all of whose cells read as numbers      *)
(* becomes a numeric column; any other column is left as it is.            *)
NumericCell(cell) ==
  \/ "num" \in DOMAIN cell
  \/ "str" \in DOMAIN cell /\ IsNumericText(cell.str)

ConvertCell(cell) == IF "str" \in DOMAIN cell THEN Num(ParseNumber(cell.str)) ELSE cell

read_json(json) ==
  [i \in 1..Len(json) |->
     [c \in {AxisLabel(k) : k \in DOMAIN json[i]} |->
        LET k == CHOOSE k \in DOMAIN json[i] : AxisLabel(k) = c IN
        IF \A j \in 1..Len(json) : NumericCell(json[j][k])
        THEN ConvertCell(json[i][k]) ELSE json[i][k]]]

-----------------------------------------------------------------------------
(* fetch_disclosures: the website's answer is any main table of at most    *)
(* MaxRows rows and, for each row whose "Interest in Debentures" reads     *)
(* "yes", any detail table.                                                *)

Detail(row, table) ==
  [Person |-> row["Name"].str,
   DisclosureDate |-> row["Date of Notice"].str,
   Details |-> table]

RECURSIVE DetailsFrom(_, _, _)
DetailsFrom(data, tables, i) ==
  IF i > Len(data) THEN <<>>
  ELSE (IF HasDebentures(data[i]) THEN <<Detail(data[i], tables[i])>> ELSE <<>>)
       \o DetailsFrom(data, tables, i + 1)

fetch_disclosures(data, tables) ==
  [main_table |-> data, debenture_details |-> DetailsFrom(data, tables, 1)]

WebsiteTables(data) ==
  {t \in [1..Len(data) -> DetailFrames] :
     \A i \in 1..Len(data) : ~HasDebentures(data[i]) => t[i] = <<>>}

-----------------------------------------------------------------------------
(* save_data and load_previous_data *)

MainFile(date) == <<date, "main.json">>

DetailsFile(date, person) == <<date>> \o Split(person) \o <<"details.json">>

RECURSIVE WriteDetails(_, _, _, _)
WriteDetails(dir, date, details, i) ==
  IF i > Len(details) THEN dir
  ELSE WriteDetails(
         (DetailsFile(date, details[i].Person) :> to_json(details[i].Details)) @@ dir,
         date, details, i + 1)

save_data(dir, today, main_table, debenture_details) ==
  WriteDetails((MainFile(today) :> to_json(main_table)) @@ dir,
               today, debenture_details, 1)

IsDetailsOf(file, date) ==
  /\ file[1] = date
  /\ Len(file) >= 2
  /\ file[Len(file)] = "details.json"

(* os.listdir gives the directory's files in an arbitrary order: listing   *)
(* is one ordering of the detail files of yesterday.                       *)
Listings(dir, yesterday) ==
  Orderings({f \in DOMAIN dir : IsDetailsOf(f, yesterday)})

LatestUpTo(dir, date) ==
  LET dates == {d \in 1..date : MainFile(d) \in DOMAIN dir} IN
  IF dates = {} THEN date ELSE CHOOSE d \in dates : \A e \in dates : e <= d

(* Faulty variant of load_previous_data: the main table of the most recent date    *)
(* that has one, instead of yesterday's.                                   *)
loadMostRecent(dir, yesterday, listing) ==
  IF MainFile(LatestUpTo(dir, yesterday)) \notin DOMAIN dir
  THEN [main_table |-> NoneValue, debenture_details |-> NoneValue]
  ELSE [main_table |-> Some(read_json(dir[MainFile(LatestUpTo(dir, yesterday))])),
        debenture_details |->
          Some([i \in 1..Len(listing) |->
                  [Person |-> listing[i][2],
                   Details |-> read_json(dir[listing[i]])]])]

load_previous_data(dir, yesterday, listing) ==
  IF MainFile(yesterday) \notin DOMAIN dir
  THEN [main_table |-> NoneValue, debenture_details |-> NoneValue]
  ELSE [main_table |-> Some(read_json(dir[MainFile(yesterday)])),
        debenture_details |->
          Some([i \in 1..Len(listing) |->
                  [Person |-> listing[i][2],
                   Details |-> read_json(dir[listing[i]])]])]

-----------------------------------------------------------------------------
(* detect_changes *)

Text(s) == [text |-> s]

Table(frame) == [table |-> frame]

to_dict(df) == [i \in 1..Len(df) |-> df[i]]

(* DataFrame.isin(list) tests each cell against the elements of the list.  *)
(* The list holds dicts and a cell holds a str or a number: the two are    *)
(* never equal.                                                            *)
ScalarEqualsDict(cell, record) == FALSE

isin(df, values) ==
  [i \in 1..Len(df) |->
     [c \in Columns(df) |->
        \E k \in 1..Len(values) : ScalarEqualsDict(df[i][c], values[k])]]

(* Faulty variant of Invert: the "~" of "~today_main.isin(...)" left out. *)
InvertForgotten(mask) == mask

Invert(mask) == [i \in 1..Len(mask) |-> [c \in DOMAIN mask[i] |-> ~mask[i][c]]]

(* df[mask] with a boolean frame is df.where(mask): the shape is kept and  *)
(* the cells the mask rejects become NaN.                                  *)
where(df, mask) ==
  [i \in 1..Len(df) |->
     [c \in Columns(df) |-> IF mask[i][c] THEN df[i][c] ELSE NaN]]

MainChanges(cur_main, old_main) ==
  IF old_main = NoneValue THEN <<>>
  ELSE LET prev == old_main.some
           added == where(cur_main, Invert(isin(cur_main, to_dict(prev))))
           removed == where(prev, Invert(isin(prev, to_dict(cur_main))))
       IN (IF ~empty(added)
           THEN <<Text("New persons added:"), Table(added)>> ELSE <<>>)
          \o (IF ~empty(removed)
              THEN <<Text("Persons removed:"), Table(removed)>> ELSE <<>>)

dtype(df, c) ==
  IF \A i \in 1..Len(df) : "num" \in DOMAIN df[i][c] THEN "int64" ELSE "object"

Key(row, on) == [c \in on |-> row[c]]

Matches(row, other, on) ==
  {j \in 1..Len(other) : Key(other[j], on) = Key(row, on)}

(* left.merge(right, indicator=True, how="outer"): the join is on the      *)
(* columns the two frames share.  Rows are listed left rows first, where   *)
(* pandas sorts them by key.                                               *)
merge(left, right) ==
  LET on == Columns(left) \cap Columns(right) IN
  IF on = {} THEN [raised |-> "MergeError"]
  ELSE IF \E c \in on : dtype(left, c) # dtype(right, c)
       THEN [raised |-> "ValueError"]
  ELSE [frame |->
          Flatten([i \in 1..Len(left) |->
                     IF Matches(left[i], right, on) = {}
                     THEN <<[row |-> left[i], indicator |-> "left_only"]>>
                     ELSE [j \in 1..Cardinality(Matches(left[i], right, on)) |->
                             [row |-> left[i], indicator |-> "both"]]])
          \o Flatten([j \in 1..Len(right) |->
                        IF Matches(right[j], left, on) = {}
                        THEN <<[row |-> right[j], indicator |-> "right_only"]>>
                        ELSE <<>>])]

NotBoth(r) == r.indicator # "both"

FirstMatch(old_details, person) ==
  LET found == {k \in 1..Len(old_details) : old_details[k].Person = person} IN
  IF found = {} THEN NoneValue
  ELSE Some(old_details[CHOOSE k \in found : \A m \in found : k <= m])

RECURSIVE DetailChanges(_, _, _)
DetailChanges(cur_details, old_details, i) ==
  IF i > Len(cur_details) THEN [changes |-> <<>>]
  ELSE
    LET today_detail == cur_details[i]
        prev_detail == FirstMatch(old_details, today_detail.Person)
    IN
    IF prev_detail = NoneValue
    THEN DetailChanges(cur_details, old_details, i + 1)
    ELSE
      LET merged == merge(today_detail.Details, prev_detail.some.Details) IN
      IF "raised" \in DOMAIN merged THEN merged
      ELSE
        LET diff == SelectSeq(merged.frame, NotBoth)
            rest == DetailChanges(cur_details, old_details, i + 1)
        IN
        IF "raised" \in DOMAIN rest THEN rest
        ELSE [changes |->
                (IF diff # <<>>
                 THEN <<[text |-> "Changes for", person |-> today_detail.Person],
                        Table(diff)>>
                 ELSE <<>>)
                \o rest.changes]

detect_changes(cur_main, cur_details, old_main, old_details) ==
  LET details == DetailChanges(cur_details, old_details, 1) IN
  IF "raised" \in DOMAIN details THEN details
  ELSE [changes |-> MainChanges(cur_main, old_main) \o details.changes]

Initialized == <<Text("No previous data available. Initialized with today's data.")>>

(* Faulty variant of compare: the first-run branch of __main__ left out, the       *)
(* missing previous data taken as empty.                                   *)
compareWithoutSentinel(cur_main, cur_details, old_main, old_details) ==
  detect_changes(cur_main, cur_details, old_main,
                 IF old_details = NoneValue THEN <<>> ELSE old_details.some)

(* __main__, lines 187-191 *)
compare(cur_main, cur_details, old_main, old_details) ==
  IF old_main = NoneValue \/ old_details = NoneValue
  THEN [changes |-> Initialized]
  ELSE detect_changes(cur_main, cur_details, old_main, old_details.some)

-----------------------------------------------------------------------------
(* send_email: the HTML body *)

NoChangeMessage == "No change in debenture holdings since the previous day."

UpdateMessage == "Update detected in debenture holdings."

body(changelist, main_table, debenture_details) ==
  IF changelist = <<>>
  THEN [message |-> NoChangeMessage, tables |-> <<>>]
  ELSE [message |-> UpdateMessage,
        tables |-> <<main_table>>
                   \o [i \in 1..Len(debenture_details) |->
                         debenture_details[i].Details]]

-----------------------------------------------------------------------------
(* The monitor process: __main__ of hkex_debenture_monitor.py, run by the  *)
(* scheduler.  The date moves on at any time.                              *)

NotRunMulti ==
  /\ previous_file = NoneValue
  /\ previous_data = NoneValue
  /\ current_data = {}
  /\ ticker = 1
  /\ changes_detected = FALSE
  /\ mpc = "off"
  /\ merror = "none"

Init ==
  /\ day = 1
  /\ files = <<>>
  /\ pc = "start"
  /\ runs = 0
  /\ today_main = <<>>
  /\ today_details = <<>>
  /\ prev_main = NoneValue
  /\ prev_details = NoneValue
  /\ changes = <<>>
  /\ email = NoneValue
  /\ error = "none"
  /\ savedOn = 0
  /\ loadedFrom = 0
  /\ attempts = 0
  /\ persisted = <<>>
  /\ NotRunMulti

Tick ==
  /\ day < MaxDay
  /\ day' = day + 1
  /\ UNCHANGED <<files, pc, runs, today_main, today_details, prev_main,
                 prev_details, changes, email, error, savedOn, loadedFrom,
                 attempts, persisted, multiVars>>

FetchDisclosures ==
  /\ pc \in {"start", "exited", "crashed"}
  /\ runs < MaxRuns
  /\ runs' = runs + 1
  /\ prev_main' = NoneValue
  /\ prev_details' = NoneValue
  /\ changes' = <<>>
  /\ email' = NoneValue
  /\ savedOn' = 0
  /\ loadedFrom' = 0
  /\ attempts' = 0
  /\ \/ \E data \in SeqsUpTo(MainRows, MaxRows) : \E tables \in WebsiteTables(data) :
          LET fetched == fetch_disclosures(data, tables) IN
          /\ today_main' = fetched.main_table
          /\ today_details' = fetched.debenture_details
          /\ pc' = "fetched"
          /\ error' = "none"
     \/ /\ today_main' = <<>>
        /\ today_details' = <<>>
        /\ pc' = "crashed"
        /\ error' = "playwright.Error"
  /\ UNCHANGED <<day, files, persisted, multiVars>>

SaveData ==
  /\ pc = "fetched"
  /\ files' = save_data(files, day, today_main, today_details)
  /\ savedOn' = day
  /\ persisted' = Append(persisted, [date |-> day, main |-> to_json(today_main),
                                     notify |-> "pending"])
  /\ pc' = "saved"
  /\ UNCHANGED <<day, runs, today_main, today_details, prev_main, prev_details,
                 changes, email, error, loadedFrom, attempts, multiVars>>

LoadPreviousData ==
  /\ pc = "saved"
  /\ \E listing \in Listings(files, day - 1) :
       LET loaded == load_previous_data(files, day - 1, listing) IN
       /\ prev_main' = loaded.main_table
       /\ prev_details' = loaded.debenture_details
  /\ loadedFrom' = day - 1
  /\ pc' = "loaded"
  /\ UNCHANGED <<day, files, runs, today_main, today_details, changes, email,
                 error, savedOn, attempts, persisted, multiVars>>

DetectChanges ==
  /\ pc = "loaded"
  /\ LET result == compare(today_main, today_details, prev_main, prev_details) IN
     \/ /\ "changes" \in DOMAIN result
        /\ changes' = result.changes
        /\ pc' = "compared"
        /\ error' = error
     \/ /\ "raised" \in DOMAIN result
        /\ changes' = changes
        /\ pc' = "crashed"
        /\ error' = result.raised
  /\ UNCHANGED <<day, files, runs, today_main, today_details, prev_main,
                 prev_details, email, savedOn, loadedFrom, attempts, persisted,
                 multiVars>>

Notified(history, outcome) ==
  [history EXCEPT ![Len(history)] = [@ EXCEPT !.notify = outcome]]

(* Faulty variant of SendEmail: a failed delivery removes what save_data wrote     *)
(* under today's date.                                                     *)
SendEmailRollingBack ==
  /\ pc = "compared"
  /\ attempts' = attempts + 1
  /\ \/ /\ email' = Some([body |-> body(changes, today_main, today_details),
                          delivered |-> TRUE])
        /\ pc' = "exited"
        /\ error' = error
        /\ persisted' = Notified(persisted, "ok")
        /\ files' = files
     \/ /\ email' = Some([body |-> body(changes, today_main, today_details),
                          delivered |-> FALSE])
        /\ pc' = "crashed"
        /\ error' = "smtplib.SMTPException"
        /\ persisted' = Notified(persisted, "failed")
        /\ files' = [f \in {g \in DOMAIN files : g[1] # savedOn} |-> files[f]]
  /\ UNCHANGED <<day, runs, today_main, today_details, prev_main,
                 prev_details, changes, savedOn, loadedFrom, multiVars>>

SendEmail ==
  /\ pc = "compared"
  /\ attempts' = attempts + 1
  /\ \/ /\ email' = Some([body |-> body(changes, today_main, today_details),
                          delivered |-> TRUE])
        /\ pc' = "exited"
        /\ error' = error
        /\ persisted' = Notified(persisted, "ok")
     \/ /\ email' = Some([body |-> body(changes, today_main, today_details),
                          delivered |-> FALSE])
        /\ pc' = "crashed"
        /\ error' = "smtplib.SMTPException"
        /\ persisted' = Notified(persisted, "failed")
  /\ UNCHANGED <<day, files, runs, today_main, today_details, prev_main,
                 prev_details, changes, savedOn, loadedFrom, multiVars>>

Next ==
  \/ Tick
  \/ FetchDisclosures
  \/ SaveData
  \/ LoadPreviousData
  \/ DetectChanges
  \/ SendEmail

Spec == Init /\ [][Next]_vars

-----------------------------------------------------------------------------
(* detect_changes and send_email as functions of their arguments: the      *)
(* process stands after load_previous_data with any current snapshot and   *)
(* any previous one, the previous one as frames of the dtypes of the       *)
(* current one, as read back from the files save_data writes, or with the  *)
(* columns of an older layout.                                             *)

Narrow(df) ==
  [i \in 1..Len(df) |-> [c \in DOMAIN df[i] \ {"Date of Notice"} |-> df[i][c]]]

Reread(details) ==
  [i \in 1..Len(details) |->
     [Person |-> details[i].Person,
      Details |-> read_json(to_json(details[i].Details))]]

Snapshots ==
  {fetch_disclosures(data, tables) :
     data \in SeqsUpTo(MainRows, MaxRows), tables \in [1..MaxRows -> DetailFrames]}

PreviousOf(snapshot) ==
  {[main_table |-> Some(snapshot.main_table),
    debenture_details |-> Some(snapshot.debenture_details)],
   [main_table |-> Some(read_json(to_json(snapshot.main_table))),
    debenture_details |-> Some(Reread(snapshot.debenture_details))],
   [main_table |-> Some(Narrow(snapshot.main_table)),
    debenture_details |-> Some(snapshot.debenture_details)]}

InitDiff ==
  /\ day = 1
  /\ pc = "loaded"
  /\ runs = 1
  /\ \E current \in Snapshots :
       /\ today_main = current.main_table
       /\ today_details = current.debenture_details
       /\ files = save_data(<<>>, 1, current.main_table, current.debenture_details)
       /\ persisted = <<[date |-> 1, main |-> to_json(current.main_table),
                         notify |-> "pending"]>>
  /\ \E previous \in {[main_table |-> NoneValue, debenture_details |-> NoneValue]}
                     \cup UNION {PreviousOf(s) : s \in Snapshots} :
       /\ prev_main = previous.main_table
       /\ prev_details = previous.debenture_details
  /\ changes = <<>>
  /\ email = NoneValue
  /\ error = "none"
  /\ savedOn = 1
  /\ loadedFrom = 0
  /\ attempts = 0
  /\ NotRunMulti

NextDiff == DetectChanges \/ SendEmail

SpecDiff == InitDiff /\ [][NextDiff]_vars

-----------------------------------------------------------------------------
(* send_test_email.py: __main__ over its list of tickers.                  *)

tickers ==
  <<[hkex_sid |-> "972", stock_code |-> "488"],
    [hkex_sid |-> "27", stock_code |-> "17"]>>

FormRow(serial, interest) ==
  [FormSerialNumber |-> Str(serial), InterestsInDebentures |-> Str(interest)]

FormRows == {FormRow(f, i) : f \in {"F1", "F2"}, i \in InterestTexts}

DebentureRow(amount) == [AmountOfDebentures |-> Str(amount)]

DebentureFrames == SeqsUpTo({DebentureRow(t) : t \in CellTexts}, MaxDetailRows)

RECURSIVE DebenturesFrom(_, _, _)
DebenturesFrom(rows, linked, i) ==
  IF i > Len(rows) THEN <<>>
  ELSE (IF Lower(rows[i].InterestsInDebentures.str) = "yes" THEN linked[i] ELSE <<>>)
       \o DebenturesFrom(rows, linked, i + 1)

fetch_disclosures_via_url(rows, linked) ==
  [main_df |-> rows, debenture_df |-> DebenturesFrom(rows, linked, 1)]

LinkedTables(rows) ==
  {t \in [1..Len(rows) -> DebentureFrames] :
     \A i \in 1..Len(rows) :
       Lower(rows[i].InterestsInDebentures.str) # "yes" => t[i] = <<>>}

(* A Python dict is the set of its <<key, value>> items. *)
SetItem(dict, key, value) == {item \in dict : item[1] # key} \cup {<<key, value>>}

load_previous(file) == IF file = NoneValue THEN {} ELSE file.some

InitMulti ==
  /\ day = 1
  /\ files = <<>>
  /\ pc = "off"
  /\ runs = 0
  /\ today_main = <<>>
  /\ today_details = <<>>
  /\ prev_main = NoneValue
  /\ prev_details = NoneValue
  /\ changes = <<>>
  /\ email = NoneValue
  /\ error = "none"
  /\ savedOn = 0
  /\ loadedFrom = 0
  /\ attempts = 0
  /\ persisted = <<>>
  /\ previous_file = NoneValue
  /\ previous_data = NoneValue
  /\ current_data = {}
  /\ ticker = 1
  /\ changes_detected = FALSE
  /\ mpc = "start"
  /\ merror = "none"

(* lines 184-187 *)
MultiLoadPrevious ==
  /\ mpc \in {"start", "crashed"}
  /\ previous_data' = Some(load_previous(previous_file))
  /\ current_data' = {}
  /\ ticker' = 1
  /\ changes_detected' = FALSE
  /\ mpc' = "loop"
  /\ merror' = "none"
  /\ UNCHANGED <<previous_file, monitorVars>>

(* lines 189-202: one pass of the loop; an exception of the fetch is not   *)
(* caught and ends the process.                                            *)
MultiFetch ==
  /\ mpc = "loop"
  /\ ticker <= Len(tickers)
  /\ \/ \E rows \in SeqsUpTo(FormRows, MaxRows) : \E linked \in LinkedTables(rows) :
          LET fetched == fetch_disclosures_via_url(rows, linked) IN
          /\ current_data' =
               SetItem(current_data, tickers[ticker].stock_code,
                       [main_table |-> to_dict(fetched.main_df),
                        debenture_table |-> to_dict(fetched.debenture_df)])
          /\ ticker' = ticker + 1
          /\ mpc' = mpc
          /\ merror' = merror
     \/ /\ current_data' = current_data
        /\ ticker' = ticker
        /\ mpc' = "crashed"
        /\ merror' = "requests.HTTPError"
  /\ UNCHANGED <<previous_file, previous_data, changes_detected, monitorVars>>

(* line 205, detect_changes(previous_data, current_data) *)
MultiDetectChanges ==
  /\ mpc = "loop"
  /\ ticker > Len(tickers)
  /\ changes_detected' = (previous_data.some # current_data)
  /\ mpc' = "detected"
  /\ UNCHANGED <<previous_file, previous_data, current_data, ticker, merror,
                 monitorVars>>

(* lines 208-214: email_body is not defined anywhere in the script, so     *)
(* line 214 raises NameError and the process ends there; the SMTP delivery *)
(* of lines 216-219 and save_current_data of line 224 are never reached.   *)
MultiBuildMessage ==
  /\ mpc = "detected"
  /\ mpc' = "crashed"
  /\ merror' = "NameError"
  /\ UNCHANGED <<previous_file, previous_data, current_data, ticker,
                 changes_detected, monitorVars>>

NextMulti ==
  \/ MultiLoadPrevious
  \/ MultiFetch
  \/ MultiDetectChanges
  \/ MultiBuildMessage

SpecMulti == InitMulti /\ [][NextMulti]_vars

-----------------------------------------------------------------------------
(* Reading a change list *)

TableAfter(changelist, header) ==
  IF \E i \in 1..Len(changelist) - 1 : changelist[i] = header
  THEN changelist[(CHOOSE i \in 1..Len(changelist) - 1 : changelist[i] = header) + 1].table
  ELSE <<>>

AddedRows(changelist) == TableAfter(changelist, Text("New persons added:"))

RemovedRows(changelist) == TableAfter(changelist, Text("Persons removed:"))

ModifiedEntries(changelist, person) ==
  {i \in 1..Len(changelist) - 1 :
     changelist[i] = [text |-> "Changes for", person |-> person]}

ModifiedHolders(changelist) ==
  {changelist[i].person : i \in {j \in 1..Len(changelist) : "person" \in DOMAIN changelist[j]}}

Persons(details) == {details[i].Person : i \in 1..Len(details)}

RecordKey(row) == <<row["Name"], row["Capacity"], row["Nature of Interest"]>>

Keys(rows) == {RecordKey(rows[i]) : i \in 1..Len(rows)}

HolderNames(rows) == {rows[i]["Name"].str : i \in 1..Len(rows)}

NotIn(rows, others) ==
  LET Absent(r) == \A k \in 1..Len(others) : others[k] # r IN SelectSeq(rows, Absent)

(* The comparison of this run has been made: it gave a change list or it   *)
(* raised.                                                                 *)
Compared == pc = "compared" \/ attempts > 0

ComparisonRaised == pc = "crashed" /\ attempts = 0 /\ prev_main # NoneValue

HadPrevious == prev_main # NoneValue /\ prev_details # NoneValue

-----------------------------------------------------------------------------
(* C1: when load_previous_data found no previous snapshot, the change list *)
(* is the "initialized" sentinel whatever today's snapshot holds; a run    *)
(* that had a previous snapshot never yields the sentinel, and the         *)
(* sentinel is not the empty change list.                                  *)
C1_InitializedWithoutPrevious ==
  Compared =>
    /\ ~HadPrevious => changes = Initialized /\ changes # <<>>
    /\ HadPrevious => changes # Initialized

C1_Witness ==
  /\ pc = "compared"
  /\ prev_main = NoneValue
  /\ today_main # <<>>
  /\ changes = Initialized

(* C2: the renderer has three branches: the sentinel gives a message that  *)
(* is neither the update nor the no-change message, and no tables; the     *)
(* empty change list gives the no-change message; tables are emitted only  *)
(* for a non-empty change list that is not the sentinel.                   *)
C2_ThreeBranches ==
  email # NoneValue =>
    /\ changes = Initialized =>
         /\ email.some.body.tables = <<>>
         /\ email.some.body.message \notin {UpdateMessage, NoChangeMessage}
    /\ changes = <<>> => email.some.body.message = NoChangeMessage
    /\ email.some.body.tables # <<>> => changes # <<>> /\ changes # Initialized

(* C3: with the same columns on both sides, added is exactly the rows of   *)
(* today's main table equal to no row of the previous one, and removed     *)
(* exactly the rows of the previous one equal to no row of today's.        *)
C3_FullRowDifference ==
  (pc = "compared" /\ HadPrevious
     /\ Columns(today_main) = Columns(prev_main.some)) =>
    /\ AddedRows(changes) = NotIn(today_main, prev_main.some)
    /\ RemovedRows(changes) = NotIn(prev_main.some, today_main)

(* C4: the comparison answers, and for every holder with a detail table on *)
(* both sides there is one "Changes for" entry exactly when some row is on *)
(* one side only, holding exactly those rows, each tagged with its side; a *)
(* holder without a previous detail table has no entry.                    *)
C4_DetailJoin ==
  ((pc = "compared" \/ ComparisonRaised) /\ HadPrevious) =>
    /\ pc = "compared"
    /\ \A p \in Persons(today_details) :
         IF p \in Persons(prev_details.some)
         THEN LET cur == (CHOOSE d \in Range(today_details) : d.Person = p).Details
                  old == (CHOOSE d \in Range(prev_details.some) : d.Person = p).Details
                  delta ==
                    {[row |-> r, indicator |-> "left_only"] : r \in Range(NotIn(cur, old))}
                    \cup {[row |-> r, indicator |-> "right_only"] : r \in Range(NotIn(old, cur))}
              IN IF delta = {}
                 THEN ModifiedEntries(changes, p) = {}
                 ELSE /\ Cardinality(ModifiedEntries(changes, p)) = 1
                      /\ \A i \in ModifiedEntries(changes, p) :
                           Range(changes[i + 1].table) = delta
         ELSE ModifiedEntries(changes, p) = {}

(* C5: a snapshot compared with itself gives the empty change list, and    *)
(* the email then says "no change".                                        *)
C5_SelfComparisonEmpty ==
  ((Compared \/ ComparisonRaised)
     /\ prev_main = Some(today_main) /\ prev_details = Some(today_details)) =>
    /\ ~ComparisonRaised
    /\ changes = <<>>
    /\ email # NoneValue => email.some.body.message = NoChangeMessage

(* C6, as claimed: no record key is in more than one of added, removed and *)
(* modified (a modified entry is keyed by the holder's name).              *)
C6_KeysDisjoint ==
  (pc = "compared" /\ HadPrevious) =>
    /\ Keys(AddedRows(changes)) \cap Keys(RemovedRows(changes)) = {}
    /\ HolderNames(AddedRows(changes)) \cap ModifiedHolders(changes) = {}
    /\ HolderNames(RemovedRows(changes)) \cap ModifiedHolders(changes) = {}

(* C6, amended: every added record is a row of today's main table, every   *)
(* removed record a row of the previous main table, and a holder is        *)
(* reported as modified only if it has a detail table on both sides.       *)
C6_ListsDrawnFromTheirSide ==
  (pc = "compared" /\ HadPrevious) =>
    /\ Range(AddedRows(changes)) \subseteq Range(today_main)
    /\ Range(RemovedRows(changes)) \subseteq Range(prev_main.some)
    /\ ModifiedHolders(changes)
         \subseteq Persons(today_details) \cap Persons(prev_details.some)

C6_Witness ==
  /\ pc = "compared"
  /\ HadPrevious
  /\ Keys(AddedRows(changes)) \cap Keys(RemovedRows(changes)) # {}
  /\ AddedRows(changes) # RemovedRows(changes)
  /\ ModifiedHolders(changes) # {}

(* C7: main tables, each with rows, whose column sets differ make the      *)
(* comparison fail with SchemaMismatch, and no change list is produced.    *)
C7_SchemaMismatch ==
  ((Compared \/ ComparisonRaised) /\ HadPrevious
     /\ today_main # <<>> /\ prev_main.some # <<>>
     /\ Columns(today_main) # Columns(prev_main.some)) =>
    /\ ComparisonRaised
    /\ error = "SchemaMismatch"

-----------------------------------------------------------------------------
(* Reading the history of runs *)

StoredUnder(date) == {i \in 1..Len(persisted) : persisted[i].date = date}

LastStoredUnder(date) ==
  persisted[CHOOSE i \in StoredUnder(date) : \A j \in StoredUnder(date) : j <= i]

RunsOnDistinctDays ==
  \A i, j \in 1..Len(persisted) : i # j => persisted[i].date # persisted[j].date

PreviousRun == persisted[Len(persisted) - 1]

(* C8, as claimed: for runs on different days, days without a run          *)
(* included, the previous main table of a run is the one the most recent   *)
(* earlier run persisted, and none only when no earlier run persisted one. *)
C8_MostRecentEarlierSnapshot ==
  (pc = "loaded" /\ RunsOnDistinctDays /\ loadedFrom = savedOn - 1) =>
    prev_main = IF Len(persisted) = 1 THEN NoneValue
                ELSE Some(read_json(PreviousRun.main))

(* C8, amended: the previous main table of a run is the one last persisted *)
(* under the date one day before the date of the load, and none, together  *)
(* with the previous detail tables, when nothing was persisted under that  *)
(* date, whatever older snapshots the store holds.                         *)
C8_PreviousIsYesterdays ==
  pc \in {"loaded", "compared"} =>
    /\ loadedFrom >= savedOn - 1
    /\ prev_main = IF StoredUnder(loadedFrom) = {} THEN NoneValue
                   ELSE Some(read_json(LastStoredUnder(loadedFrom).main))
    /\ prev_details = NoneValue <=> prev_main = NoneValue

C8_Witness ==
  /\ pc = "loaded"
  /\ Len(persisted) = 2
  /\ persisted[1].date < loadedFrom
  /\ loadedFrom = savedOn - 1
  /\ prev_main = NoneValue

(* C9: when the fetch of one ticker fails, every other ticker still has    *)
(* its data fetched.                                                       *)
C9_FailureIsolated ==
  (mpc = "crashed" /\ merror = "requests.HTTPError") =>
    \A k \in 1..Len(tickers) :
      k # ticker => \E item \in current_data : item[1] = tickers[k].stock_code

(* What C10 says of one run: the notification is attempted only once the   *)
(* snapshot is in the store, at most once, a failed delivery ends the      *)
(* process with the SMTP exception, and the stored snapshot is still what  *)
(* save_data wrote.                                                        *)
PersistedBeforeNotification ==
  /\ attempts <= 1
  /\ attempts > 0 =>
       /\ savedOn # 0
       /\ MainFile(savedOn) \in DOMAIN files
       /\ files[MainFile(savedOn)] = to_json(today_main)
       /\ \A i \in 1..Len(today_details) :
            DetailsFile(savedOn, today_details[i].Person) \in DOMAIN files
  /\ (email # NoneValue /\ ~email.some.delivered) =>
       /\ pc = "crashed"
       /\ error = "smtplib.SMTPException"

AfterFailedNotification ==
  /\ pc = "loaded"
  /\ Len(persisted) >= 2
  /\ PreviousRun.notify = "failed"

(* C10, as claimed: one run is as PersistedBeforeNotification says, and    *)
(* for runs on different days the run after a failed notification finds    *)
(* the snapshot of the failed run as its previous snapshot.                *)
C10_NextRunFindsSnapshot ==
  /\ PersistedBeforeNotification
  /\ (AfterFailedNotification /\ RunsOnDistinctDays /\ loadedFrom = savedOn - 1) =>
       prev_main = Some(read_json(PreviousRun.main))

(* C10, amended: one run is as PersistedBeforeNotification says, and the   *)
(* run after a failed notification finds the snapshot of the failed run as *)
(* its previous snapshot when it loads on the day after the date that      *)
(* snapshot was saved under and has not itself saved under that date.      *)
C10_NextDayRunFindsSnapshot ==
  /\ PersistedBeforeNotification
  /\ (AfterFailedNotification
        /\ loadedFrom = PreviousRun.date
        /\ persisted[Len(persisted)].date # loadedFrom) =>
       prev_main = Some(read_json(PreviousRun.main))

C10_Witness ==
  /\ AfterFailedNotification
  /\ loadedFrom = PreviousRun.date
  /\ persisted[Len(persisted)].date # loadedFrom
  /\ PreviousRun.main # <<>>
  /\ prev_main = Some(read_json(PreviousRun.main))

====
